---- MODULE Spec2Model ----
(***************************************************************************)
(* Model of infra/infra_stack.py: the construction of InfraStack (a storage *)
(* bucket, its resource policy, a CloudFront distribution in front of it,   *)
(* a bucket deployment and two outputs), and of the provider operations the *)
(* declared properties configure: reconciliation of the synthesized graph,  *)
(* the content sync, viewer requests through the distribution, teardown.    *)
(***************************************************************************)
EXTENDS Integers, Sequences, FiniteSets, TLC

\* ------------------------------------------------------------------ bounds

\* Builds of the web application: the asset directory holds build 1..MaxBuild.
MaxBuild == 2
\* Scopes (App objects) a stack is constructed in.
MaxApps == 2

\* --------------------------------------------------------------- constants

HTTP_OK == 200
HTTP_MOVED == 301
HTTP_FORBIDDEN == 403
HTTP_NOT_FOUND == 404

\* construct ids the stack is instantiated with
ConstructIds == {"electron-orbital-viewer", "InfraStack"}

\* logical ids of the constructs
BucketId == "ElectronOrbitalViewerBucket"
PolicyId == "ElectronOrbitalViewerBucketPolicy"
DistributionId == "ElectronOrbitalViewerDistribution"
DeploymentId == "DeployElectronOrbitalViewer"

\* A path or an object key is the sequence of its segments: "/" is <<>>,
\* "assets/app.js" is <<"assets", "app.js">>, the pattern "/*" is <<"*">>.

\* the files a build of the web application writes into dist/
AssetKeys == {<<"index.html">>, <<"assets", "app.js">>}
\* the paths a viewer asks for: the root, an asset, a client-side route
RequestPaths == {<<>>, <<"assets", "app.js">>, <<"orbital", "2p">>}
\* the transports a viewer connects over
Protocols == {"http", "https"}

\* the asset directory is missing
NoDir == 0
\* no object under a key
NoObject == 0

\* ------------------------------------------------ the declared constructs

AnyPrincipal == "*"

\* website_bucket.arn_for_objects(key_pattern): the objects of the bucket whose
\* key matches the pattern (arn:aws:s3:::<bucket>/<pattern>)
arn_for_objects(bucket, key_pattern) == [bucket |-> bucket, keys |-> key_pattern]

PolicyStatement(actions, resources, principals) ==
    [actions |-> actions, resources |-> resources, principals |-> principals]

\* public_read_access=True: the bucket grants s3:GetObject on all its objects
\* to anyone
grant_public_access(bucket) ==
    PolicyStatement({"s3:GetObject"}, {arn_for_objects(bucket, <<"*">>)}, {AnyPrincipal})

\* Bucket with a separate error page
BucketErrorPage(id) ==
    [type |-> "AWS::S3::Bucket",
     id |-> id,
     refs |-> {},
     props |-> [website_index_document |-> "index.html",
                website_error_document |-> "error.html",
                public_read_access |-> TRUE,
                block_public_access |-> "BLOCK_ACLS",
                removal_policy |-> "DESTROY",
                auto_delete_objects |-> TRUE]]

\* Bucket without auto_delete_objects
BucketKeepObjects(id) ==
    [type |-> "AWS::S3::Bucket",
     id |-> id,
     refs |-> {},
     props |-> [website_index_document |-> "index.html",
                website_error_document |-> "index.html",
                public_read_access |-> TRUE,
                block_public_access |-> "BLOCK_ACLS",
                removal_policy |-> "DESTROY",
                auto_delete_objects |-> FALSE]]

\* s3.Bucket(self, "ElectronOrbitalViewerBucket", ...)
Bucket(id) ==
    [type |-> "AWS::S3::Bucket",
     id |-> id,
     refs |-> {},
     props |-> [website_index_document |-> "index.html",
                website_error_document |-> "index.html",
                public_read_access |-> TRUE,
                block_public_access |-> "BLOCK_ACLS",
                removal_policy |-> "DESTROY",
                auto_delete_objects |-> TRUE]]

\* the bucket's policy resource: it names the bucket it is attached to
BucketPolicy(bucket, statements) ==
    [type |-> "AWS::S3::BucketPolicy",
     id |-> PolicyId,
     refs |-> {bucket},
     props |-> [statements |-> statements]]

\* PublicReadStatement granting every object action
PublicReadWriteStatement(bucket) ==
    PolicyStatement({"s3:GetObject", "s3:PutObject", "s3:DeleteObject"},
                    {arn_for_objects(bucket, <<"*">>)}, {AnyPrincipal})

\* the statement handed to website_bucket.add_to_resource_policy
PublicReadStatement(bucket) ==
    PolicyStatement({"s3:GetObject"}, {arn_for_objects(bucket, <<"*">>)}, {AnyPrincipal})

\* origins.S3BucketOrigin(website_bucket): the bucket's REST endpoint
S3BucketOrigin(bucket) == [kind |-> "s3", bucket |-> bucket]

BehaviorOptions(origin, viewer_protocol_policy, cache_policy) ==
    [path_pattern |-> <<"*">>,
     origin |-> origin,
     viewer_protocol_policy |-> viewer_protocol_policy,
     cache_policy |-> cache_policy]

ErrorResponse(http_status, response_http_status, response_page_path) ==
    [http_status |-> http_status,
     response_http_status |-> response_http_status,
     response_page_path |-> response_page_path]

\* DefaultBehavior with the viewer protocol policy left at the library's default
DefaultBehaviorAllowAll(bucket) ==
    BehaviorOptions(S3BucketOrigin(bucket), "ALLOW_ALL", "CACHING_OPTIMIZED")

\* the distribution's default behavior
DefaultBehavior(bucket) ==
    BehaviorOptions(S3BucketOrigin(bucket), "REDIRECT_TO_HTTPS", "CACHING_OPTIMIZED")

\* the distribution's error_responses
ErrorResponses == {ErrorResponse(HTTP_NOT_FOUND, HTTP_OK, <<"index.html">>)}

\* Distribution whose origin is the bucket's domain name written out, not a
\* reference to the bucket
DistributionUnreferenced(id, bucket) ==
    [type |-> "AWS::CloudFront::Distribution",
     id |-> id,
     refs |-> {},
     props |-> [behaviors |-> <<BehaviorOptions(S3BucketOrigin(bucket),
                                                "REDIRECT_TO_HTTPS", "CACHING_OPTIMIZED")>>,
                default_root_object |-> <<"index.html">>,
                error_responses |-> {ErrorResponse(HTTP_NOT_FOUND, HTTP_OK, <<"index.html">>)}]]

\* cloudfront.Distribution(self, "ElectronOrbitalViewerDistribution", ...)
Distribution(id, bucket) ==
    [type |-> "AWS::CloudFront::Distribution",
     id |-> id,
     refs |-> {bucket},
     props |-> [behaviors |-> <<DefaultBehavior(bucket)>>,
                default_root_object |-> <<"index.html">>,
                error_responses |-> ErrorResponses]]

\* SourceAsset that never looks at the directory
SourceAssetUnchecked(dir) == [ok |-> TRUE, hash |-> dir]

\* s3deploy.Source.asset(<repository>/dist), bound by the deployment: the
\* staging of the directory raises when the directory does not exist
SourceAsset(dir) == IF dir = NoDir THEN [ok |-> FALSE, hash |-> NoDir]
                    ELSE [ok |-> TRUE, hash |-> dir]

\* DistributionPaths naming the index document alone
DistributionPathsIndexOnly == {<<"index.html">>}

\* the deployment's distribution_paths
DistributionPaths == {<<"*">>}

\* s3deploy.BucketDeployment(self, "DeployElectronOrbitalViewer", ...)
BucketDeployment(id, source, bucket, dist) ==
    [type |-> "Custom::CDKBucketDeployment",
     id |-> id,
     refs |-> {bucket, dist},
     props |-> [source |-> source.hash,
                destination_bucket |-> bucket,
                distribution |-> dist,
                distribution_paths |-> DistributionPaths]]

\* CfnOutput(self, name, value=<attribute of a resource>)
CfnOutput(name, of, attribute) ==
    [type |-> "Output",
     id |-> name,
     refs |-> {of},
     props |-> [value |-> attribute]]

\* InfraStack declaring a second distribution
InfraStackTwoDistributions(scope, construct_id, dir) ==
    LET website_bucket == Bucket(BucketId)
        policy == BucketPolicy(website_bucket.id,
                     <<grant_public_access(website_bucket.id),
                       PublicReadStatement(website_bucket.id)>>)
        distribution == Distribution(DistributionId, website_bucket.id)
        second == Distribution("ElectronOrbitalViewerDistribution2", website_bucket.id)
        source == SourceAsset(dir)
        deployment == BucketDeployment(DeploymentId, source,
                                       website_bucket.id, distribution.id)
    IN IF ~source.ok
       THEN [status |-> "error", id |-> construct_id, resources |-> <<>>]
       ELSE [status |-> "ok", id |-> construct_id,
             resources |-> <<website_bucket, policy, distribution, second, deployment,
                             CfnOutput("CloudFrontURL", distribution.id, "distribution_domain_name"),
                             CfnOutput("BucketURL", website_bucket.id, "bucket_website_url")>>]

\* InfraStack whose deployment carries a value of the scope it was built in
InfraStackScoped(scope, construct_id, dir) ==
    LET website_bucket == Bucket(BucketId)
        policy == BucketPolicy(website_bucket.id,
                     <<grant_public_access(website_bucket.id),
                       PublicReadStatement(website_bucket.id)>>)
        distribution == Distribution(DistributionId, website_bucket.id)
        source == SourceAsset(dir)
        deployment == BucketDeployment(DeploymentId, source,
                                       website_bucket.id, distribution.id)
        stamped == [deployment EXCEPT !.props = [source |-> deployment.props.source,
                                                 destination_bucket |-> deployment.props.destination_bucket,
                                                 distribution |-> deployment.props.distribution,
                                                 distribution_paths |-> deployment.props.distribution_paths,
                                                 stamp |-> scope]]
    IN IF ~source.ok
       THEN [status |-> "error", id |-> construct_id, resources |-> <<>>]
       ELSE [status |-> "ok", id |-> construct_id,
             resources |-> <<website_bucket, policy, distribution, stamped,
                             CfnOutput("CloudFrontURL", distribution.id, "distribution_domain_name"),
                             CfnOutput("BucketURL", website_bucket.id, "bucket_website_url")>>]

\* InfraStack.__init__(scope, construct_id): the constructs in the order the
\* constructor declares them; the construction raises where the deployment
\* binds a source directory that does not exist
InfraStack(scope, construct_id, dir) ==
    LET website_bucket == Bucket(BucketId)
        policy == BucketPolicy(website_bucket.id,
                     <<grant_public_access(website_bucket.id),
                       PublicReadStatement(website_bucket.id)>>)
        distribution == Distribution(DistributionId, website_bucket.id)
        source == SourceAsset(dir)
        deployment == BucketDeployment(DeploymentId, source,
                                       website_bucket.id, distribution.id)
    IN IF ~source.ok
       THEN [status |-> "error", id |-> construct_id, resources |-> <<>>]
       ELSE [status |-> "ok", id |-> construct_id,
             resources |-> <<website_bucket, policy, distribution, deployment,
                             CfnOutput("CloudFrontURL", distribution.id, "distribution_domain_name"),
                             CfnOutput("BucketURL", website_bucket.id, "bucket_website_url")>>]

\* ------------------------------------------------ what the props configure

\* a pattern matches a path (key) equal to it, or, ending in "*", every path
\* that starts with what precedes the "*"
PathMatches(pattern, path) ==
    \/ pattern = path
    \/ /\ Len(pattern) > 0
       /\ pattern[Len(pattern)] = "*"
       /\ Len(path) >= Len(pattern) - 1
       /\ \A i \in 1..(Len(pattern) - 1) : path[i] = pattern[i]

\* a response body: the object it is a copy of, and that object's build
NoBody == [file |-> <<>>, ver |-> 0]
Body(key, ver) == [file |-> key, ver |-> ver]

Response(status, body, location) ==
    [status |-> status, body |-> body, location |-> location]

\* the resources of a constructed stack the engine reconciles (outputs are
\* values, not resources)
Resources(stk) ==
    {stk.resources[i] : i \in {j \in DOMAIN stk.resources : stk.resources[j].type # "Output"}}

OfType(rs, type) == {r \in rs : r.type = type}

\* ------------------------------------------------------------------- state

VARIABLES
    dist,      \* the asset directory: NoDir, or the build it holds
    app,       \* the scope of the last construction
    stack,     \* the outcome of the last construction of InfraStack
    name,      \* the name of the stack the provider holds, "" when none
    mode,      \* the engine: "idle", "applying" a submission, "deleting"
    live,      \* the resources the provider holds, as last reconciled
    pending,   \* the resources of the submission still to be applied
    report,    \* the last submission's change set: "none", "changes", "no changes"
    objects,   \* the bucket's objects: key -> build, NoObject when absent
    cache      \* the distribution's cache: request path -> cached body

vars == <<dist, app, stack, name, mode, live, pending, report, objects, cache>>

local == <<dist, app, stack>>
remote == <<name, mode, live, pending, report, objects, cache>>

NoStack == [status |-> "none", id |-> "", resources |-> <<>>]
EmptyBucket == [k \in AssetKeys |-> NoObject]
EmptyCache == [p \in RequestPaths |-> NoBody]

Live(type) == OfType(live, type)
IsLive(id) == \E r \in live : r.id = id

\* ------------------------------------------------- the bucket as an origin

\* whether the live bucket policy lets an anonymous caller perform `action`
\* on `resource` (an object of the bucket, or the bucket itself)
PublicAllows(action, resource) ==
    \E pol \in Live("AWS::S3::BucketPolicy") :
    \E b \in Live("AWS::S3::Bucket") :
        /\ b.id \in pol.refs
        /\ b.props.block_public_access \in {"BLOCK_ACLS", "NONE"}
        /\ \E i \in DOMAIN pol.props.statements :
             LET st == pol.props.statements[i]
             IN /\ AnyPrincipal \in st.principals
                /\ action \in st.actions
                /\ \E arn \in st.resources :
                     /\ arn.bucket = resource.bucket
                     /\ PathMatches(arn.keys, resource.keys)

\* an anonymous GET of `key` at the bucket's REST endpoint: the object when it
\* exists and may be read; for a key with no object, not-found only to a caller
\* that may list the bucket, access-denied otherwise
OriginGet(bucket, key) ==
    LET has == key \in AssetKeys /\ objects[key] # NoObject
    IN IF ~IsLive(bucket) THEN Response(HTTP_NOT_FOUND, NoBody, "")
       ELSE IF has /\ PublicAllows("s3:GetObject", arn_for_objects(bucket, key))
       THEN Response(HTTP_OK, Body(key, objects[key]), "")
       ELSE IF ~has /\ PublicAllows("s3:ListBucket", arn_for_objects(bucket, <<>>))
       THEN Response(HTTP_NOT_FOUND, NoBody, "")
       ELSE Response(HTTP_FORBIDDEN, NoBody, "")

\* ------------------------------------------------------- the distribution

\* the behavior a path is served under: the first whose pattern matches
BehaviorFor(d, path) ==
    LET hits == {i \in DOMAIN d.props.behaviors :
                    PathMatches(d.props.behaviors[i].path_pattern, path)}
    IN d.props.behaviors[CHOOSE i \in hits : \A j \in hits : i <= j]

\* the origin's answer after the distribution's error responses are applied
WithErrorResponses(d, bucket, answer) ==
    LET rules == {e \in d.props.error_responses : e.http_status = answer.status}
    IN IF rules = {} THEN answer
       ELSE LET e == CHOOSE x \in rules : TRUE
                page == OriginGet(bucket, e.response_page_path)
            IN IF page.status = HTTP_OK
               THEN Response(e.response_http_status, page.body, "")
               ELSE answer

\* what distribution d answers to a viewer's GET of `path` over `protocol`
Respond(d, protocol, path) ==
    LET b == BehaviorFor(d, path)
        key == IF path = <<>> THEN d.props.default_root_object ELSE path
    IN IF protocol = "http" /\ b.viewer_protocol_policy = "REDIRECT_TO_HTTPS"
       THEN Response(HTTP_MOVED, NoBody, "https")
       ELSE IF protocol = "http" /\ b.viewer_protocol_policy = "HTTPS_ONLY"
       THEN Response(HTTP_FORBIDDEN, NoBody, "")
       ELSE IF cache[path] # NoBody
       THEN Response(HTTP_OK, cache[path], "")
       ELSE WithErrorResponses(d, b.origin.bucket, OriginGet(b.origin.bucket, key))

\* ------------------------------------------------------- the content sync

\* the deployment's handler: the source's files replace the destination
\* bucket's objects, then the distribution's cache is invalidated for the
\* distribution_paths
SyncObjects(dep) == [k \in AssetKeys |-> dep.props.source]

Invalidate(dep) ==
    [p \in RequestPaths |->
        IF \E pat \in dep.props.distribution_paths : PathMatches(pat, p)
        THEN NoBody ELSE cache[p]]

\* ----------------------------------------------------------------- actions

Init ==
    /\ dist \in 0..MaxBuild
    /\ app = 1
    /\ stack = NoStack
    /\ name = ""
    /\ mode = "idle"
    /\ live = {}
    /\ pending = {}
    /\ report = "none"
    /\ objects = EmptyBucket
    /\ cache = EmptyCache

\* the web application's build writes dist/ (or the directory is removed)
Build(d) ==
    /\ dist' = d
    /\ UNCHANGED <<app, stack>>
    /\ UNCHANGED remote

\* a stack is constructed in a fresh scope
Synth(construct_id) ==
    /\ app' = (app % MaxApps) + 1
    /\ stack' = InfraStack(app', construct_id, dist)
    /\ UNCHANGED dist
    /\ UNCHANGED remote

\* the engine's change set: the declared resources that are not live as declared
Diff(declared, held) == {r \in declared : r \notin held}

\* the constructed stack is submitted to the engine
Submit ==
    /\ stack.status = "ok"
    /\ mode = "idle"
    /\ name \in {"", stack.id}
    /\ name' = stack.id
    /\ pending' = Diff(Resources(stack), live)
    /\ mode' = IF pending' = {} THEN "idle" ELSE "applying"
    /\ report' = IF pending' = {} THEN "no changes" ELSE "changes"
    /\ UNCHANGED <<live, objects, cache>>
    /\ UNCHANGED local

\* a resource may be applied once everything it refers to is live as declared
Ready(r) ==
    \A id \in r.refs : IsLive(id) /\ ~\E q \in pending : q.id = id

\* the engine creates or updates one resource of the change set
Apply(r) ==
    /\ mode = "applying"
    /\ r \in pending
    /\ Ready(r)
    /\ live' = {q \in live : q.id # r.id} \cup {r}
    /\ pending' = pending \ {r}
    /\ mode' = IF pending' = {} THEN "idle" ELSE "applying"
    /\ IF r.type = "Custom::CDKBucketDeployment"
       THEN objects' = SyncObjects(r) /\ cache' = Invalidate(r)
       ELSE UNCHANGED <<objects, cache>>
    /\ UNCHANGED <<name, report>>
    /\ UNCHANGED local

\* a viewer's request through the distribution; a successful answer is cached
Request(protocol, path) ==
    /\ \E d \in Live("AWS::CloudFront::Distribution") :
         LET answer == Respond(d, protocol, path)
         IN cache' = IF answer.status = HTTP_OK
                     THEN [cache EXCEPT ![path] = answer.body]
                     ELSE cache
    /\ UNCHANGED <<name, mode, live, pending, report, objects>>
    /\ UNCHANGED local

\* the stack is torn down
Teardown ==
    /\ mode = "idle"
    /\ name # ""
    /\ live # {}
    /\ mode' = "deleting"
    /\ UNCHANGED <<name, live, pending, report, objects, cache>>
    /\ UNCHANGED local

\* a resource may be deleted once nothing live refers to it; a bucket that is
\* to be destroyed must be empty, unless its objects are deleted with it
Deletable(r) ==
    /\ ~\E q \in live : r.id \in q.refs
    /\ r.type = "AWS::S3::Bucket" =>
         \/ r.props.removal_policy # "DESTROY"
         \/ r.props.auto_delete_objects
         \/ objects = EmptyBucket

\* the engine deletes one resource of the stack
Delete(r) ==
    /\ mode = "deleting"
    /\ r \in live
    /\ Deletable(r)
    /\ live' = live \ {r}
    /\ objects' = IF /\ r.type = "AWS::S3::Bucket"
                     /\ r.props.removal_policy = "DESTROY"
                     /\ r.props.auto_delete_objects
                  THEN EmptyBucket ELSE objects
    /\ cache' = IF r.type = "AWS::CloudFront::Distribution" THEN EmptyCache ELSE cache
    /\ mode' = IF live' = {} THEN "idle" ELSE "deleting"
    /\ name' = IF live' = {} THEN "" ELSE name
    /\ report' = IF live' = {} THEN "none" ELSE report
    /\ UNCHANGED pending
    /\ UNCHANGED local

Next ==
    \/ \E d \in 0..MaxBuild : Build(d)
    \/ \E c \in ConstructIds : Synth(c)
    \/ Submit
    \/ \E r \in pending : Apply(r)
    \/ \E pr \in Protocols, p \in RequestPaths : Request(pr, p)
    \/ Teardown
    \/ \E r \in live : Delete(r)

\* ----------------------------------------------- the tests' assertions

\* Template.from_stack(stack): the resources of the constructed stack
Template(stk) == Resources(stk)

\* template.has_resource_properties(type, props): a resource of the type has
\* every property named, with the value given
has_resource_properties(template, type, props) ==
    \E r \in OfType(template, type) :
        \A f \in DOMAIN props : f \in DOMAIN r.props /\ r.props[f] = props[f]

\* template.resource_count_is(type, n)
resource_count_is(template, type, n) ==
    Cardinality(OfType(template, type)) = n

\* ------------------------------------------------------------------ claims

Declared(type) == OfType(Resources(stack), type)

\* the descriptor is reconciled: the engine is idle and holds the stack
Reconciled == mode = "idle" /\ name # "" /\ live # {}

\* C1: the resource graph of a constructed InfraStack holds a bucket whose
\* website configuration has the index document and the error document both
\* set to exactly "index.html".
C1_WebsiteDocuments ==
    stack.status = "ok" =>
        has_resource_properties(Template(stack), "AWS::S3::Bucket",
            [website_index_document |-> "index.html",
             website_error_document |-> "index.html"])

C1_Witness ==
    stack.status = "ok" /\ Declared("AWS::S3::Bucket") # {}

\* C2: the resource graph of every constructed InfraStack holds exactly one
\* distribution resource.
C2_OneDistribution ==
    stack.status = "ok" =>
        resource_count_is(Template(stack), "AWS::CloudFront::Distribution", 1)

C2_Witness ==
    stack.status = "ok" /\ stack.id = "electron-orbital-viewer"
    /\ Declared("AWS::CloudFront::Distribution") # {}

\* the object a path asks the origin for
KeyOf(d, path) == IF path = <<>> THEN d.props.default_root_object ELSE path

HasObject(key) == key \in AssetKeys /\ objects[key] # NoObject

\* C3 (as claimed): once the descriptor is reconciled, a request through the
\* distribution for any path that has no object in the bucket is answered
\* with HTTP 200 and the content of index.html.
C3_NotFoundServesIndex ==
    Reconciled =>
        \A d \in Live("AWS::CloudFront::Distribution") :
        \A p \in RequestPaths :
            (~HasObject(KeyOf(d, p)) /\ HasObject(<<"index.html">>)) =>
                Respond(d, "https", p) =
                    Response(HTTP_OK, Body(<<"index.html">>, objects[<<"index.html">>]), "")

\* C4: the distribution has exactly one behavior, the default one, whose
\* origin is the declared bucket; every viewer request over plain HTTP is
\* answered with a redirect to HTTPS and never with content.
C4_RedirectToHttps ==
    /\ stack.status = "ok" =>
         \A d \in Declared("AWS::CloudFront::Distribution") :
            /\ Len(d.props.behaviors) = 1
            /\ d.props.behaviors[1].path_pattern = <<"*">>
            /\ \E b \in Declared("AWS::S3::Bucket") :
                 d.props.behaviors[1].origin = S3BucketOrigin(b.id)
            /\ d.props.behaviors[1].viewer_protocol_policy = "REDIRECT_TO_HTTPS"
    /\ \A d \in Live("AWS::CloudFront::Distribution") :
       \A p \in RequestPaths :
            Respond(d, "http", p) = Response(HTTP_MOVED, NoBody, "https")

\* a distribution that would have content to serve: its cache holds a body
C4_Witness ==
    /\ Live("AWS::CloudFront::Distribution") # {}
    /\ \E p \in RequestPaths : cache[p] # NoBody

\* no cached body is older than the object it is a copy of
CacheFresh ==
    \A p \in RequestPaths :
        cache[p] # NoBody =>
            cache[p].file \in AssetKeys /\ cache[p].ver = objects[cache[p].file]

DeploymentSource(rs) ==
    {r.props.source : r \in OfType(rs, "Custom::CDKBucketDeployment")}

\* the constructed stack is the descriptor the engine last reconciled: same
\* stack, same asset directory content
SameDescriptor ==
    /\ stack.status = "ok"
    /\ stack.id = name
    /\ DeploymentSource(Resources(stack)) = DeploymentSource(live)

\* C6: submitting the same descriptor again, with the asset directory
\* unchanged, yields an empty change set and leaves the reconciled state as
\* it was.
C6_Idempotent ==
    /\ []((Reconciled /\ SameDescriptor) => Diff(Resources(stack), live) = {})
    /\ [][(Reconciled /\ SameDescriptor /\ report' # report)
            => /\ report' = "no changes"
               /\ UNCHANGED <<name, mode, live, pending, objects, cache>>]_vars

\* a second submission was made from another construction of the stack
C6_Witness ==
    Reconciled /\ SameDescriptor /\ report = "no changes" /\ app # 2

\* C7: every statement of the bucket policy that grants to the anonymous
\* principal allows only s3:GetObject and only on the bucket's objects.
C7_PublicReadOnly ==
    stack.status = "ok" =>
        \A pol \in Declared("AWS::S3::BucketPolicy") :
        \A i \in DOMAIN pol.props.statements :
            LET st == pol.props.statements[i]
            IN AnyPrincipal \in st.principals =>
                 /\ st.actions = {"s3:GetObject"}
                 /\ \A arn \in st.resources :
                      arn.bucket \in pol.refs /\ arn.keys = <<"*">>

C7_Witness ==
    /\ stack.status = "ok"
    /\ \E pol \in Declared("AWS::S3::BucketPolicy") :
       \E i \in DOMAIN pol.props.statements :
            AnyPrincipal \in pol.props.statements[i].principals

\* the ids a resource reaches through references, in at most n steps
RECURSIVE Reach(_, _, _)
Reach(rs, ids, n) ==
    IF n = 0 THEN ids
    ELSE Reach(rs, ids \cup UNION {r.refs : r \in {q \in rs : q.id \in ids}}, n - 1)

Acyclic(rs) ==
    \A r \in rs : r.id \notin Reach(rs, r.refs, Cardinality(rs))

LiveOf(type) == Live(type) # {}

\* C8 (as claimed): while a stack is being created, the bucket and its policy
\* exist before the distribution does, the sync runs only after bucket and
\* distribution exist, and the reference graph has no cycle.
C8_PolicyBeforeDistribution ==
    /\ (mode # "deleting" /\ LiveOf("AWS::CloudFront::Distribution"))
          => LiveOf("AWS::S3::Bucket") /\ LiveOf("AWS::S3::BucketPolicy")
    /\ LiveOf("Custom::CDKBucketDeployment")
          => LiveOf("AWS::S3::Bucket") /\ LiveOf("AWS::CloudFront::Distribution")
    /\ stack.status = "ok" => Acyclic(Resources(stack))

\* C8 (amended): the bucket exists before its policy and before the
\* distribution (the two are not ordered with each other), the sync runs only
\* after bucket and distribution exist, and the reference graph has no cycle.
C8_ReferenceOrder ==
    /\ LiveOf("AWS::CloudFront::Distribution") => LiveOf("AWS::S3::Bucket")
    /\ LiveOf("AWS::S3::BucketPolicy") => LiveOf("AWS::S3::Bucket")
    /\ LiveOf("Custom::CDKBucketDeployment")
          => LiveOf("AWS::S3::Bucket") /\ LiveOf("AWS::CloudFront::Distribution")
    /\ stack.status = "ok" => Acyclic(Resources(stack))

\* the distribution exists while the policy is still to be created
C8_Witness ==
    /\ mode = "applying"
    /\ LiveOf("AWS::CloudFront::Distribution")
    /\ ~LiveOf("AWS::S3::BucketPolicy")

\* C9: constructing the stack over a missing asset directory fails there and
\* then: the construction raises, nothing at the provider changes in that
\* step, and a failed construction is never submitted.
C9_MissingDirFailsLocally ==
    /\ [][(dist = NoDir /\ stack' # stack)
            => stack'.status = "error" /\ UNCHANGED remote]_vars
    /\ [][stack.status = "error"
            => /\ name' \in {name, ""}
               /\ pending' \subseteq pending
               /\ report' \in {report, "none"}]_vars

\* a construction failed while the provider held an earlier deployment
C9_Witness ==
    stack.status = "error" /\ Reconciled /\ objects # EmptyBucket

\* C10: teardown destroys the bucket and every object in it: it is never
\* blocked, a non-empty bucket included, and once it is over neither the
\* bucket nor any object remains.
C10_TeardownDestroys ==
    /\ mode = "deleting" => \E r \in live : Deletable(r)
    /\ name = "" => live = {} /\ objects = EmptyBucket

\* teardown has reached a bucket that still holds objects
C10_Witness ==
    /\ mode = "deleting"
    /\ objects # EmptyBucket
    /\ live # {}
    /\ \A r \in live : r.type = "AWS::S3::Bucket"

Spec == Init /\ [][Next]_vars

====
